---- MODULE Spec2Model ----
(***************************************************************************)
(* Model of convert.py: the conversion of a Transcriber TRS document into  *)
(* WEBVTT.  format_time and generate_timestamp are operators computed on   *)
(* sequences of characters, convert is a state machine that walks the      *)
(* turns of the document and their annotations in document order.          *)
(*                                                                         *)
(* Strings are sequences of one-character strings, except that a word of   *)
(* free text, an event markup ("<i>(coughs)</i>") and the pieces of the    *)
(* speaker prefix ("<v ", the name, ">") are one element each.             *)
(*                                                                         *)
(* A time code is the attribute string of the document, represented by     *)
(* what float() makes of it: [num |-> FALSE] for a string float() rejects, *)
(* else the value as whole seconds and microseconds, 0 <= us < 1000000     *)
(* (the value is sec + us / 1000000, so -0.5 is sec = -1, us = 500000),    *)
(* which is the normal form datetime.timedelta keeps.                      *)
(*                                                                         *)
(* The document is read as convert reads it: each action draws the next    *)
(* element the iterators yield.  The loops over Section and Turn yield the *)
(* turns in document order, so doc is one sequence of turns.  A Turn holds *)
(* Sync and Event elements; the text directly after the Turn tag and any   *)
(* other element are passed over by the loop and left out here.  The Turn  *)
(* attribute endTime is drawn only when line 112 reads it.                 *)
(***************************************************************************)
EXTENDS Integers, Sequences, FiniteSets, TLC

VARIABLES
    language,        \* convert's argument language
    add_speakers,    \* convert's argument add_speakers
    preserve_noise,  \* convert's argument preserve_noise
    doc,             \* the turns of the document iterated so far, in document order
    pc,              \* "turns": in the loop over turns; "anns": in the loop over a
                     \* turn's annotations; "done": returned; "failed": raised
    error,           \* the exception convert raised ("" while none)
    speaker_prefix,  \* local speaker_prefix
    start_time,      \* local start_time
    end_time,        \* local end_time
    text,            \* local text
    vtt_lines,       \* local vtt_lines
    turn,            \* the Turn element of the current iteration, with the
                     \* annotations its iterator has yielded so far
    cues,            \* log of the cues appended to vtt_lines
    result,          \* the string convert returned (<<>> while none)
    time,            \* format_time's argument
    fpc,             \* "idle", "call", "return" or "raise"
    formatted        \* the string format_time returned (<<>> while none)

vars == <<language, add_speakers, preserve_noise, doc, turn, pc, error, speaker_prefix,
          start_time, end_time, text, vtt_lines, cues, result, time, fpc, formatted>>

convertVars == <<language, add_speakers, preserve_noise, doc, turn, pc, error,
                 speaker_prefix, start_time, end_time, text, vtt_lines, cues, result>>

formatVars == <<time, fpc, formatted>>

(***************************************************************************)
(* Bounds of the model.                                                    *)
(***************************************************************************)
\* the most elements (Turn, Sync, Event) a document holds
MaxElements == 4

MaxHours == 25

(***************************************************************************)
(* Strings.                                                                *)
(***************************************************************************)
Range(s) == {s[i] : i \in DOMAIN s}

Whitespace == {" ", "\n", "\t"}

RECURSIVE LStrip(_)
LStrip(s) ==
    IF s = <<>> THEN <<>>
    ELSE IF Head(s) \in Whitespace THEN LStrip(Tail(s)) ELSE s

RECURSIVE RStrip(_)
RStrip(s) ==
    IF s = <<>> THEN <<>>
    ELSE IF s[Len(s)] \in Whitespace THEN RStrip(SubSeq(s, 1, Len(s) - 1)) ELSE s

\* str.strip()
Strip(s) == RStrip(LStrip(s))

\* s[:n]
Take(s, n) == SubSeq(s, 1, IF Len(s) < n THEN Len(s) ELSE n)

\* "0" * n (the empty string when n <= 0)
Zeros(n) == [i \in 1..n |-> "0"]

DigitChar(d) == <<"0", "1", "2", "3", "4", "5", "6", "7", "8", "9">>[d + 1]

\* "%d" % n for n >= 0
RECURSIVE Dec(_)
Dec(n) == IF n < 10 THEN <<DigitChar(n)>> ELSE Dec(n \div 10) \o <<DigitChar(n % 10)>>

\* "%d" % n
SignedDec(n) == IF n < 0 THEN <<"-">> \o Dec(-n) ELSE Dec(n)

\* "%0wd" % n for n >= 0
ZeroPad(n, w) == Zeros(w - Len(Dec(n))) \o Dec(n)

\* "\n".join(lines)
RECURSIVE Join(_)
Join(lines) ==
    IF lines = <<>> THEN <<>>
    ELSE IF Len(lines) = 1 THEN lines[1]
    ELSE lines[1] \o <<"\n">> \o Join(Tail(lines))

(***************************************************************************)
(* Time codes.                                                             *)
(***************************************************************************)
SecondsPerDay == 86400

Number(s, u) == [num |-> TRUE, sec |-> s, us |-> u]

Seconds(s) == Number(s, 0)

\* a string float() raises ValueError on, such as "abc" or ""
NotANumber == [num |-> FALSE, sec |-> 0, us |-> 0]

\* an attribute convert never read: its value has no part in the run
NotRead == [num |-> FALSE, sec |-> -1, us |-> 0]

Returned(v) == [ok |-> TRUE, val |-> v]

Raised(e) == [ok |-> FALSE, val |-> <<>>, error |-> e]

\* str(datetime.timedelta(seconds=float(time))) for a time code float() accepts
StrTimedelta(t) ==
    LET days    == t.sec \div SecondsPerDay
        seconds == t.sec % SecondsPerDay
        mm      == (seconds \div 60) % 60
        hh      == (seconds \div 60) \div 60
        ss      == seconds % 60
        hms     == Dec(hh) \o <<":">> \o ZeroPad(mm, 2) \o <<":">> \o ZeroPad(ss, 2)
        plural  == IF days \in {1, -1} THEN <<>> ELSE <<"s">>
        dayPart == IF days = 0 THEN <<>>
                   ELSE SignedDec(days) \o <<" ", "d", "a", "y">> \o plural \o <<",", " ">>
        usPart  == IF t.us = 0 THEN <<>> ELSE <<".">> \o ZeroPad(t.us, 6)
    IN  dayPart \o hms \o usPart

\* The string format_time builds when float() accepts the time code.
FormatTimeString(t) ==
    LET s == <<"0">> \o Take(StrTimedelta(t), 11)
    IN  IF "." \in Range(s) THEN s \o Zeros(12 - Len(s)) ELSE s \o <<".", "0", "0", "0">>

format_time(t) ==
    IF t.num THEN Returned(FormatTimeString(t)) ELSE Raised("ValueError")

generate_timestamp(start, end) ==
    LET a == format_time(start)
        b == format_time(end)
    IN  IF ~a.ok THEN a
        ELSE IF ~b.ok THEN b
        ELSE Returned(a.val \o <<" ", "-", "-", ">", " ">> \o b.val)

(***************************************************************************)
(* The document: the inputs the walk draws from.                           *)
(***************************************************************************)
\* the table built from the Speakers section
speakers == [spk1 |-> "Alice", spk2 |-> "Bob"]

\* the speaker attribute of a Turn ("" when the Turn has none)
SpeakerAttrs == {"spk1", ""}

Languages == {"", "en"}

TimeCodes == {Seconds(0), Seconds(2), Seconds(5), NotANumber}

\* the text that follows an annotation, when there is any
Tails == {<<" ">>, <<"Hello", " ", "there">>}

\* the desc attribute of an Event
Descs == {"COUGH", "BOGUS"}

\* hasTail is FALSE when nothing follows the element (its tail is None)
Sync(t, hasTail, tail) == [tag |-> "Sync", time |-> t, hasTail |-> hasTail, tail |-> tail]

Event(d, hasTail, tail) == [tag |-> "Event", desc |-> d, hasTail |-> hasTail, tail |-> tail]

Syncs == {Sync(t, TRUE, tl) : t \in TimeCodes, tl \in Tails}
             \cup {Sync(t, FALSE, <<>>) : t \in TimeCodes}

Events == {Event(d, TRUE, tl) : d \in Descs, tl \in Tails}
              \cup {Event(d, FALSE, <<>>) : d \in Descs}

\* no Turn is being iterated
NoTurn == [speaker |-> "", startTime |-> NotRead, anns |-> <<>>]

RECURSIVE CountAnns(_)
CountAnns(turns) ==
    IF turns = <<>> THEN 0 ELSE Len(Head(turns).anns) + CountAnns(Tail(turns))

\* the number of elements (Turn, Sync, Event) iterated so far
Elements == Len(doc) + CountAnns(doc) + (IF pc = "anns" THEN 1 + Len(turn.anns) ELSE 0)

(***************************************************************************)
(* convert.                                                                *)
(***************************************************************************)
noise ==
    ("COUGH" :> <<" ", "<i>(coughs)</i>", " ">>)
        @@ ("EE-HESITATION" :> <<" ", "<i>(hesitates)</i>", " ">>)
        @@ ("LAUGHTER" :> <<" ", "<i>(laughs)</i>", " ">>)
        @@ ("LIP_SMACK" :> <<" ", "<i>(smacks lips)</i>", " ">>)
        @@ ("LOUD_BREATH" :> <<" ", "<i>(breaths loudly)</i>", " ">>)
        @@ ("NOISE" :> <<" ", "<i>(noise)</i>", " ">>)
        @@ ("SILENCE" :> <<" ", "<i>(silence)</i>", " ">>)
        @@ ("UH-HUH" :> <<" ", "<i>(uh-huh)</i>", " ">>)
        @@ ("UNINTELLIGIBLE" :> <<" ", "<i>(unintelligible)</i>", " ">>)

\* noise.get(annotation.attrib["desc"], ""): an unknown code adds nothing
NoiseLookupWithDefault(desc) ==
    Returned(IF desc \in DOMAIN noise THEN noise[desc] ELSE <<>>)

\* noise[annotation.attrib["desc"]]
NoiseLookup(desc) ==
    IF desc \in DOMAIN noise THEN Returned(noise[desc]) ELSE Raised("KeyError")

\* vtt_lines before the first turn
Header(lang) ==
    <<<<"WEBVTT">>>> \o (IF lang # "" THEN <<<<"Language: ", lang>>>> ELSE <<>>) \o <<<<>>>>

\* speakers.get(turn.attrib.get("speaker", ""), "")
SpeakersGet(id) == IF id \in DOMAIN speakers THEN speakers[id] ELSE ""

\* "<v {}>".format(speaker)
SpeakerPrefix(name) == <<"<v ", name, ">">>

\* if True: a cue at every Sync and at the end of every turn
HasTextAlways(txt) == TRUE

\* if text:
HasText(txt) == txt # <<>>

\* text.strip(): the prefix is left out
CueLineWithoutPrefix(add, prefix, txt) == Strip(txt)

\* add_speakers * speaker_prefix + text.strip()
CueLine(add, prefix, txt) == (IF add THEN prefix ELSE <<>>) \o Strip(txt)

\* text is not reset after a cue
TextAfterCueKept(txt) == txt

\* text after the cue of a Sync is appended
TextAfterCue(txt) == <<>>

\* start_time = end_time inside "if text:": only a Sync that emits a cue moves the start
StartAfterSyncOnlyOnCue(emitted, start, endt) == IF emitted THEN endt ELSE start

\* start_time is never moved
StartAfterSyncKept(emitted, start, endt) == start

\* start_time after a Sync whose time is endt
StartAfterSync(emitted, start, endt) == endt

\* the markup is appended whatever preserve_noise is
TextWithNoiseAlways(txt, pn, markup) == txt \o markup

\* text after an Event's own markup is appended
TextWithNoise(txt, pn, markup) == IF pn THEN txt \o markup ELSE txt

\* text after an annotation's tail is appended
TextWithTail(txt, tail) == txt \o Strip(tail)

Cue(t, at, start, endt) ==
    [turn |-> t, at |-> at, start |-> start, end |-> endt, line |-> Len(vtt_lines) + 1]

Fail(e) ==
    /\ pc' = "failed"
    /\ error' = e
    /\ UNCHANGED <<speaker_prefix, start_time, end_time, text, vtt_lines, cues, result>>

Init ==
    /\ language \in Languages
    /\ add_speakers \in BOOLEAN
    /\ preserve_noise \in BOOLEAN
    /\ doc = <<>>
    /\ turn = NoTurn
    /\ pc = "turns"
    /\ error = ""
    /\ speaker_prefix = <<>>
    /\ start_time = NotANumber
    /\ end_time = NotANumber
    /\ text = <<>>
    /\ vtt_lines = Header(language)
    /\ cues = <<>>
    /\ result = <<>>
    /\ time = Seconds(0)
    /\ fpc = "idle"
    /\ formatted = <<>>

\* the next Turn of the document: lines 85-90
BeginTurn ==
    /\ pc = "turns"
    /\ Elements < MaxElements
    /\ \E spk \in SpeakerAttrs, st \in TimeCodes :
          /\ turn' = [speaker |-> spk, startTime |-> st, anns |-> <<>>]
          /\ speaker_prefix' = SpeakerPrefix(SpeakersGet(spk))
          /\ start_time' = st
    /\ end_time' = NotANumber
    /\ text' = <<>>
    /\ pc' = "anns"
    /\ UNCHANGED <<language, add_speakers, preserve_noise, doc, error, vtt_lines, cues,
                   result, formatVars>>

\* the iterator yields a Sync: lines 96-104
OnSync ==
    /\ pc = "anns"
    /\ Elements < MaxElements
    /\ \E a \in Syncs :
          LET emit == HasText(text)
              ts   == generate_timestamp(start_time, a.time)
              kept == IF emit THEN TextAfterCue(text) ELSE text
          IN  /\ turn' = [turn EXCEPT !.anns = Append(@, a)]
              /\ IF emit /\ ~ts.ok THEN Fail(ts.error)
                 ELSE IF ~a.hasTail THEN Fail("AttributeError")
                 ELSE /\ end_time' = a.time
                      /\ vtt_lines' = IF emit
                                      THEN vtt_lines \o <<ts.val,
                                               CueLine(add_speakers, speaker_prefix, text),
                                               <<>>>>
                                      ELSE vtt_lines
                      /\ cues' = IF emit
                                 THEN Append(cues, Cue(Len(doc) + 1, Len(turn.anns) + 1,
                                                       start_time, a.time))
                                 ELSE cues
                      /\ text' = TextWithTail(kept, a.tail)
                      /\ start_time' = StartAfterSync(emit, start_time, a.time)
                      /\ UNCHANGED <<pc, error, speaker_prefix, result>>
    /\ UNCHANGED <<language, add_speakers, preserve_noise, doc, formatVars>>

\* the iterator yields an Event: lines 106-109
OnEvent ==
    /\ pc = "anns"
    /\ Elements < MaxElements
    /\ \E a \in Events :
          LET markup == NoiseLookup(a.desc)
          IN  /\ turn' = [turn EXCEPT !.anns = Append(@, a)]
              /\ IF preserve_noise /\ ~markup.ok THEN Fail(markup.error)
                 ELSE IF ~a.hasTail THEN Fail("AttributeError")
                 ELSE /\ text' = TextWithTail(TextWithNoise(text, preserve_noise, markup.val),
                                              a.tail)
                      /\ UNCHANGED <<pc, error, speaker_prefix, start_time, end_time,
                                     vtt_lines, cues, result>>
    /\ UNCHANGED <<language, add_speakers, preserve_noise, doc, formatVars>>

\* the iterator is exhausted: lines 111-114; endTime is read only when text is left
EndTurn ==
    /\ pc = "anns"
    /\ \E et \in (IF HasText(text) THEN TimeCodes ELSE {NotRead}) :
          LET emit == HasText(text)
              ts   == generate_timestamp(start_time, et)
          IN  /\ doc' = Append(doc, [speaker |-> turn.speaker, startTime |-> turn.startTime,
                                     endTime |-> et, anns |-> turn.anns])
              /\ turn' = NoTurn
              /\ IF emit /\ ~ts.ok THEN Fail(ts.error)
                 ELSE /\ vtt_lines' = IF emit
                                      THEN vtt_lines \o <<ts.val,
                                               CueLine(add_speakers, speaker_prefix, text),
                                               <<>>>>
                                      ELSE vtt_lines
                      /\ cues' = IF emit
                                 THEN Append(cues, Cue(Len(doc) + 1, Len(turn.anns) + 1,
                                                       start_time, et))
                                 ELSE cues
                      /\ pc' = "turns"
                      /\ UNCHANGED <<error, speaker_prefix, start_time, end_time, text,
                                     result>>
    /\ UNCHANGED <<language, add_speakers, preserve_noise, formatVars>>

\* no Turn is left: line 116
Return ==
    /\ pc = "turns"
    /\ result' = Join(vtt_lines)
    /\ pc' = "done"
    /\ UNCHANGED <<language, add_speakers, preserve_noise, doc, turn, error, speaker_prefix,
                   start_time, end_time, text, vtt_lines, cues, formatVars>>

Next == BeginTurn \/ OnSync \/ OnEvent \/ EndTurn \/ Return

Spec == Init /\ [][Next]_vars

(***************************************************************************)
(* format_time on its own.                                                 *)
(***************************************************************************)
Minutes == {0, 1, 59}

Secs == {0, 5, 59}

Micros == {0, 1, 500, 50000, 500000, 999000, 999999}

FormatInputs ==
    {Number(h * 3600 + m * 60 + s, u) : h \in 0..MaxHours, m \in Minutes, s \in Secs,
                                        u \in Micros}
        \cup {Number(-1, 0), Number(-1, 500000), NotANumber}

InitFormat ==
    /\ language = ""
    /\ add_speakers = FALSE
    /\ preserve_noise = FALSE
    /\ doc = <<>>
    /\ turn = NoTurn
    /\ pc = "idle"
    /\ error = ""
    /\ speaker_prefix = <<>>
    /\ start_time = NotANumber
    /\ end_time = NotANumber
    /\ text = <<>>
    /\ vtt_lines = <<>>
    /\ cues = <<>>
    /\ result = <<>>
    /\ time \in FormatInputs
    /\ fpc = "call"
    /\ formatted = <<>>

FormatReturn ==
    /\ fpc = "call"
    /\ format_time(time).ok
    /\ formatted' = format_time(time).val
    /\ fpc' = "return"
    /\ UNCHANGED <<time, convertVars>>

FormatRaise ==
    /\ fpc = "call"
    /\ ~format_time(time).ok
    /\ fpc' = "raise"
    /\ UNCHANGED <<time, formatted, convertVars>>

NextFormat == FormatReturn \/ FormatRaise

SpecFormat == InitFormat /\ [][NextFormat]_vars

(***************************************************************************)
(* What the claims speak of: the document read so far and its segments,    *)
(* and the cues found in vtt_lines.                                        *)
(***************************************************************************)
\* the turns read so far, the one being iterated included
Turns ==
    IF turn = NoTurn THEN doc
    ELSE Append(doc, [speaker |-> turn.speaker, startTime |-> turn.startTime,
                      endTime |-> NotRead, anns |-> turn.anns])

\* the turns whose iteration is over
Complete(t) == t <= Len(doc)

AllAnns == UNION {Range(Turns[t].anns) : t \in DOMAIN Turns}

Anns(t) == Turns[t].anns

IsSync(t, j) == Anns(t)[j].tag = "Sync"

IsEvent(t, j) == Anns(t)[j].tag = "Event"

\* the index of the last Sync of turn t before position at (0 when there is none)
LastSyncBefore(t, at) ==
    LET S == {j \in 1..(at - 1) : j <= Len(Anns(t)) /\ IsSync(t, j)}
    IN  IF S = {} THEN 0 ELSE CHOOSE j \in S : \A k \in S : k <= j

\* what annotation j of turn t adds to the accumulated text
Fragment(t, j) ==
    LET a == Anns(t)[j]
    IN  (IF a.tag = "Event" /\ preserve_noise THEN noise[a.desc] ELSE <<>>) \o Strip(a.tail)

RECURSIVE Accumulated(_, _, _)
Accumulated(t, from, to) ==
    IF from > to THEN <<>> ELSE Fragment(t, from) \o Accumulated(t, from + 1, to)

\* The segments of turn t are named by the position that closes them: the index of a
\* Sync, or Len(Anns(t)) + 1 for the segment the end of the turn closes.
SegmentEnds(t) ==
    {j \in 1..Len(Anns(t)) : IsSync(t, j)}
        \cup (IF Complete(t) THEN {Len(Anns(t)) + 1} ELSE {})

SegmentOpen(t, at) ==
    IF LastSyncBefore(t, at) = 0 THEN Turns[t].startTime
    ELSE Anns(t)[LastSyncBefore(t, at)].time

SegmentClose(t, at) == IF at > Len(Anns(t)) THEN Turns[t].endTime ELSE Anns(t)[at].time

SegmentText(t, at) ==
    Accumulated(t, IF LastSyncBefore(t, at) = 0 THEN 1 ELSE LastSyncBefore(t, at), at - 1)

\* the closed segments with text, in document order
RECURSIVE SegmentsFrom(_, _)
SegmentsFrom(t, at) ==
    IF t > Len(Turns) THEN <<>>
    ELSE IF at > Len(Anns(t)) + 1 THEN SegmentsFrom(t + 1, 1)
    ELSE IF at \in SegmentEnds(t) /\ SegmentText(t, at) # <<>>
         THEN <<[turn |-> t, at |-> at, start |-> SegmentOpen(t, at),
                 end |-> SegmentClose(t, at), body |-> Strip(SegmentText(t, at))]>>
                  \o SegmentsFrom(t, at + 1)
         ELSE SegmentsFrom(t, at + 1)

TextSegments == SegmentsFrom(1, 1)

\* the text line of cue i, and the line without the speaker prefix
CueTextLine(i) == vtt_lines[cues[i].line + 1]

CueBody(i) ==
    IF add_speakers THEN SubSeq(CueTextLine(i), 4, Len(CueTextLine(i))) ELSE CueTextLine(i)

CueViews ==
    [i \in DOMAIN cues |->
        [turn |-> cues[i].turn, at |-> cues[i].at, start |-> cues[i].start,
         end |-> cues[i].end, body |-> CueBody(i)]]

Count(s, x) == Cardinality({i \in DOMAIN s : s[i] = x})

\* a <= b for time codes float() accepts
Leq(a, b) == a.sec < b.sec \/ (a.sec = b.sec /\ a.us <= b.us)

\* the time codes convert read, in document order
RECURSIVE AnnTimes(_)
AnnTimes(anns) ==
    IF anns = <<>> THEN <<>>
    ELSE (IF Head(anns).tag = "Sync" THEN <<Head(anns).time>> ELSE <<>>)
             \o AnnTimes(Tail(anns))

RECURSIVE TurnTimes(_)
TurnTimes(turns) ==
    IF turns = <<>> THEN <<>>
    ELSE <<Head(turns).startTime>> \o AnnTimes(Head(turns).anns)
             \o (IF Head(turns).endTime = NotRead THEN <<>> ELSE <<Head(turns).endTime>>)
             \o TurnTimes(Tail(turns))

ReadTimes == TurnTimes(Turns)

Running == pc # "failed"

(***************************************************************************)
(* C1: the end-to-end scenario.                                            *)
(***************************************************************************)
ScenarioDoc ==
    <<[speaker |-> "spk1", startTime |-> Seconds(0), endTime |-> Seconds(5),
       anns |-> <<Sync(Seconds(2), TRUE, <<"Hello", " ", "there">>)>>]>>

\* convert has returned for the scenario's document, flags off, no language
C1_Scenario ==
    /\ pc = "done"
    /\ doc = ScenarioDoc
    /\ ~add_speakers
    /\ ~preserve_noise
    /\ language = ""

\* C1 as claimed: for the document with one Turn (speaker spk1, startTime 0, endTime 5)
\* whose only annotation is a Sync at time 2 followed by "Hello there", convert returns
\* WEBVTT, blank, "00:00:00.000 --> 00:00:05.000", "Hello there", blank: the cue starts
\* at the turn's startTime.
C1_CueStartsAtTurnStart ==
    C1_Scenario =>
        result = <<"WEBVTT", "\n", "\n",
                   "0", "0", ":", "0", "0", ":", "0", "0", ".", "0", "0", "0",
                   " ", "-", "-", ">", " ",
                   "0", "0", ":", "0", "0", ":", "0", "5", ".", "0", "0", "0", "\n",
                   "Hello", " ", "there", "\n">>

\* C1 as amended: for that document convert returns WEBVTT, blank,
\* "00:00:02.000 --> 00:00:05.000", "Hello there", blank: the cue starts at the time of
\* the Sync that precedes its text.
C1_CueStartsAtSync ==
    C1_Scenario =>
        result = <<"WEBVTT", "\n", "\n",
                   "0", "0", ":", "0", "0", ":", "0", "2", ".", "0", "0", "0",
                   " ", "-", "-", ">", " ",
                   "0", "0", ":", "0", "0", ":", "0", "5", ".", "0", "0", "0", "\n",
                   "Hello", " ", "there", "\n">>

(***************************************************************************)
(* C2: adjacent cues of one turn.                                          *)
(***************************************************************************)
SameTurnPairs == {i \in 1..(Len(cues) - 1) : cues[i].turn = cues[i + 1].turn}

\* a Sync lies between the Sync that closed cue i and the point that closed cue i + 1
SyncBetween(i) ==
    \E j \in (cues[i].at + 1)..(cues[i + 1].at - 1) : IsSync(cues[i].turn, j)

\* C2 as claimed: for every two cues emitted one directly after the other from the same
\* Turn, the end time of the earlier equals the start time of the later, also when the
\* Turn holds Syncs at which no text has been accumulated.
C2_AdjacentCuesMeet ==
    Running => \A i \in SameTurnPairs : cues[i].end = cues[i + 1].start

\* C2 as amended: the later cue starts at the time of the last Sync before the point
\* that closes it; that is the end time of the earlier cue whenever no Sync lies between
\* the two points at which the cues were emitted.
C2_AdjacentCuesMeetWithoutGap ==
    Running =>
        \A i \in SameTurnPairs :
            /\ cues[i + 1].start = SegmentOpen(cues[i].turn, cues[i + 1].at)
            /\ ~SyncBetween(i) => cues[i].end = cues[i + 1].start

\* two cues of one turn with a Sync between them at which no cue was emitted
C2_Witness ==
    /\ pc = "done"
    /\ \E i \in SameTurnPairs : SyncBetween(i) /\ cues[i].end # cues[i + 1].start

(***************************************************************************)
(* C3: no empty cue.                                                       *)
(***************************************************************************)
\* C3: every cue in vtt_lines has text that is not empty after trimming, the speaker
\* prefix not counted, and the cues are as many as the closed segments whose
\* accumulated text is not empty: a segment without text emits no cue.
C3_NoEmptyCue ==
    Running =>
        /\ \A i \in DOMAIN cues : Strip(CueBody(i)) # <<>>
        /\ Len(cues) = Len(TextSegments)
        /\ Len(vtt_lines) = Len(Header(language)) + 3 * Len(cues)

\* a turn is over that held a Sync with no text accumulated, a segment of blanks only
\* and a cue, with the speaker prefix on
C3_Witness ==
    /\ pc = "done"
    /\ add_speakers
    /\ Len(cues) = 1
    /\ \E t \in DOMAIN doc :
          /\ Cardinality(SegmentEnds(t)) = 3
          /\ \E j \in DOMAIN Anns(t) : Anns(t)[j].tail = <<" ">>

(***************************************************************************)
(* C4: the form of format_time's result.                                   *)
(***************************************************************************)
\* HH:MM:SS.mmm for the hours, minutes, seconds and milliseconds of t
ClockString(t) ==
    LET h  == t.sec \div 3600
        m  == (t.sec \div 60) % 60
        sc == t.sec % 60
        ms == t.us \div 1000
    IN  (IF h < 10 THEN ZeroPad(h, 2) ELSE Dec(h)) \o <<":">> \o ZeroPad(m, 2) \o <<":">>
            \o ZeroPad(sc, 2) \o <<".">> \o ZeroPad(ms, 3)

\* C4: for every non-negative time code format_time returns HH:MM:SS.mmm, the hours with
\* at least 2 digits, minutes and seconds with 2 digits, the fraction with 3 digits, the
\* fields being the hours, minutes, seconds and milliseconds of the input.
C4_ClockForm ==
    (time.num /\ time.sec >= 0) =>
        /\ fpc # "raise"
        /\ fpc = "return" => formatted = ClockString(time)

(***************************************************************************)
(* C5: a time code that is no non-negative number.                         *)
(***************************************************************************)
\* C5: if a time code of the document (a Turn's startTime or endTime, a Sync's time) is
\* not a non-negative number, convert fails and returns nothing; so when convert has
\* returned, every time code it read is a non-negative number.
C5_BadTimeCodeFails ==
    pc = "done" =>
        \A i \in DOMAIN ReadTimes : ReadTimes[i].num /\ ReadTimes[i].sec >= 0

(***************************************************************************)
(* C6: unknown event codes.                                                *)
(***************************************************************************)
UnknownEvent(a) == a.tag = "Event" /\ a.desc \notin DOMAIN noise

\* every time code read is a number and every annotation is followed by text
OtherwiseValid ==
    /\ \A i \in DOMAIN ReadTimes : ReadTimes[i].num
    /\ \A a \in AllAnns : a.hasTail

EndsWith(s, suffix) ==
    /\ Len(suffix) <= Len(s)
    /\ SubSeq(s, Len(s) - Len(suffix) + 1, Len(s)) = suffix

\* the Turn being iterated has just yielded an Event with an unknown code, followed by
\* text, with preserve_noise off
UnknownEventIgnored ==
    /\ ~preserve_noise
    /\ turn # NoTurn
    /\ turn.anns # <<>>
    /\ UnknownEvent(turn.anns[Len(turn.anns)])
    /\ turn.anns[Len(turn.anns)].hasTail

\* C6: convert fails on an otherwise valid document exactly when preserve_noise is on
\* and an Event has a code outside the table; with preserve_noise off such an Event
\* raises nothing and its trailing text is appended to the accumulated text.
C6_UnknownCodeFailsOnlyWithNoise ==
    /\ pc = "done" => ~(preserve_noise /\ \E a \in AllAnns : UnknownEvent(a))
    /\ (pc = "failed" /\ OtherwiseValid) =>
           /\ preserve_noise /\ \E a \in AllAnns : UnknownEvent(a)
           /\ result = <<>>
    /\ UnknownEventIgnored =>
           /\ pc = "anns"
           /\ EndsWith(text, Strip(turn.anns[Len(turn.anns)].tail))

\* convert has failed on a document whose only defect is an Event with an unknown code
C6_Witness ==
    /\ pc = "failed"
    /\ OtherwiseValid
    /\ preserve_noise
    /\ \E a \in AllAnns : UnknownEvent(a)
    /\ Len(cues) > 0

(***************************************************************************)
(* C7: the noise toggle.                                                   *)
(***************************************************************************)
\* the markup of a code as it stands in a cue
Markup(c) == noise[c][2]

\* the Events with code c in the segment that position at of turn t closes
SegmentEvents(t, at, c) ==
    {j \in (LastSyncBefore(t, at) + 1)..(at - 1) : IsEvent(t, j) /\ Anns(t)[j].desc = c}

EventsWithCode(c) ==
    {<<t, j>> \in (DOMAIN Turns) \X (1..MaxElements) :
        j <= Len(Anns(t)) /\ IsEvent(t, j) /\ Anns(t)[j].desc = c}

\* C7: with preserve_noise off no markup stands in any output line; with it on every cue
\* holds, for each code, as many markups of that code as its segment has Events of that
\* code, and the returned text as many as the document.
C7_NoiseToggle ==
    Running =>
        \A c \in DOMAIN noise :
            /\ ~preserve_noise => \A i \in DOMAIN vtt_lines : Count(vtt_lines[i], Markup(c)) = 0
            /\ preserve_noise =>
                   /\ \A i \in DOMAIN cues :
                          Count(CueTextLine(i), Markup(c))
                              = Cardinality(SegmentEvents(cues[i].turn, cues[i].at, c))
                   /\ pc = "done" => Count(result, Markup(c)) = Cardinality(EventsWithCode(c))

\* convert has returned, preserve_noise on, for a document with a segment whose only
\* content is an Event and a segment that holds an Event after text
C7_Witness ==
    /\ pc = "done"
    /\ preserve_noise
    /\ Len(cues) = 2
    /\ CueBody(1) = <<Markup("COUGH")>>
    /\ Count(CueBody(2), Markup("COUGH")) = 1
    /\ Len(CueBody(2)) > 3

(***************************************************************************)
(* C8: the speaker prefix toggle.                                          *)
(***************************************************************************)
\* C8: with add_speakers off no output line holds "<v "; with it on every cue text line
\* of a Turn whose speaker is in the table begins with "<v NAME>", NAME the name of that
\* Turn's speaker, at a Sync as at the end of the Turn.
C8_SpeakerToggle ==
    Running =>
        /\ ~add_speakers => \A i \in DOMAIN vtt_lines : Count(vtt_lines[i], "<v ") = 0
        /\ add_speakers =>
               \A i \in DOMAIN cues :
                   LET id == Turns[cues[i].turn].speaker
                   IN  id \in DOMAIN speakers =>
                           /\ Len(CueTextLine(i)) > 3
                           /\ SubSeq(CueTextLine(i), 1, 3) = <<"<v ", speakers[id], ">">>
                           /\ Count(CueTextLine(i), "<v ") = 1

\* add_speakers on: a Turn of a known speaker gave a cue at a Sync and one at its end
C8_Witness ==
    /\ pc = "done"
    /\ add_speakers
    /\ Len(cues) = 2
    /\ Turns[cues[1].turn].speaker \in DOMAIN speakers
    /\ cues[1].turn = cues[2].turn
    /\ cues[1].at <= Len(Anns(cues[1].turn))
    /\ cues[2].at > Len(Anns(cues[2].turn))

(***************************************************************************)
(* C9: cue ranges of a document in temporal order.                         *)
(***************************************************************************)
\* the time codes read are numbers and never decrease in document order
Monotone ==
    /\ \A i \in DOMAIN ReadTimes : ReadTimes[i].num
    /\ \A i \in 1..(Len(ReadTimes) - 1) : Leq(ReadTimes[i], ReadTimes[i + 1])

\* cue i is emitted before cue j in document order
Before(i, j) ==
    \/ cues[i].turn < cues[j].turn
    \/ cues[i].turn = cues[j].turn /\ cues[i].at < cues[j].at

\* C9: when the time codes never decrease in document order, the cues are emitted in
\* document order, each cue starts no earlier than the cue before it ends, and no cue
\* ends before it starts.
C9_MonotoneRanges ==
    (Running /\ Monotone) =>
        /\ \A i \in DOMAIN cues : Leq(cues[i].start, cues[i].end)
        /\ \A i \in 1..(Len(cues) - 1) :
               /\ Before(i, i + 1)
               /\ Leq(cues[i].end, cues[i + 1].start)
               /\ cues[i].line < cues[i + 1].line

\* a document in temporal order gave a cue in one Turn and a cue in the next, with
\* times that differ
C9_Witness ==
    /\ pc = "done"
    /\ Monotone
    /\ Len(cues) = 2
    /\ cues[1].turn < cues[2].turn
    /\ cues[1].start # cues[1].end
    /\ cues[2].start # cues[2].end

(***************************************************************************)
(* C10: segmentation.                                                      *)
(***************************************************************************)
\* the segment of the Turn being iterated that no Sync has closed yet
OpenSegmentText == SegmentText(Len(Turns), Len(turn.anns) + 1)

\* C10: the cues are, in order, the closed segments with text: each cue runs from the
\* time that opens its segment (a Sync's time, the Turn's startTime before the first
\* Sync) to the time that closes it (the next Sync's time, the Turn's endTime), with the
\* segment's own text; the accumulated text is that of the open segment alone, so it is
\* empty at the start of a Turn and nothing is carried from one cue or Turn to another.
C10_Segmentation ==
    Running =>
        /\ CueViews = TextSegments
        /\ pc = "anns" => text = OpenSegmentText
        /\ (pc = "anns" /\ turn.anns = <<>>) => text = <<>>

\* convert has returned for a Turn that gave a cue for the segment before its first
\* Sync and, past a Sync without text, a cue at its end
C10_Witness ==
    /\ pc = "done"
    /\ Len(doc) = 1
    /\ Len(doc[1].anns) = 3
    /\ Len(cues) = 2
    /\ cues[1].start = doc[1].startTime /\ cues[1].at = 2
    /\ cues[2].end = doc[1].endTime /\ cues[2].at = 4
    /\ cues[1].end # cues[2].start

====
